---- MODULE Spec2Model ----
(***************************************************************************)
(* Model of SIPSessionCounter (sessioncounter.py): the per-dialog state    *)
(* machine of update, the peak snapshot, reset_peak, clear and __add__.    *)
(*                                                                         *)
(* The class uses defaultdict and copy without importing them; the model   *)
(* gives them their standard-library meaning (collections.defaultdict(int) *)
(* and copy.copy): a missing key reads as 0 and is inserted by += / -=,    *)
(* and copy yields an independent mapping with the same items.             *)
(*                                                                         *)
(* A SIP message is modelled by the pieces of text the extractors look     *)
(* for: the tokens of its start line, the value of its Call-ID header, the *)
(* tokens of its CSeq header and its To header (each possibly absent).     *)
(***************************************************************************)
EXTENDS Integers, Sequences, FiniteSets, TLC

\* ------------------------------------------------------------------ bounds
\* Largest sequence number a CSeq header of the model carries.
MaxCSeq == 1

\* ------------------------------------------------------- message alphabet
Absent == "<absent>"

\* Decimal numerals, as they appear as the first token of a CSeq header.
Numerals == <<"0", "1", "2", "3", "4", "5", "6", "7", "8", "9">>

\* Status tokens are kept as character sequences: update tests the first
\* character of the status code (startswith).
StatusCodes ==
  { <<"1","0","0">>, <<"1","8","0">>, <<"2","0","0">>, <<"4","8","6">> }

\* Values of the Call-ID header; a message without the header has Absent.
CallIdHeaders == { "c1", Absent }

\* Token lists of the CSeq header: "<n> INVITE", "<n> BYE", "<n> OPTIONS"
\* and a lone method token.
CSeqHeaders ==
  { <<Numerals[n + 1], "INVITE">> : n \in 1..MaxCSeq }
    \cup { <<"1", "BYE">>, <<"1", "OPTIONS">>, <<"INVITE">> }

\* The To header: absent, present without a tag, present with a tag.
ToNoTag == "<sip:bob@example.com>"
ToWithTag == "<sip:bob@example.com>;tag=1"
ToHeaders == { Absent, ToNoTag, ToWithTag }

RequestLine == <<"INVITE", "sip:bob@example.com", "SIP/2.0">>
StatusLine(s) == <<"SIP/2.0", s, "Reason">>

Requests ==
  [ start : {RequestLine}, callid : CallIdHeaders, cseq : {<<"1", "INVITE">>},
    to : {ToNoTag} ]

Responses ==
  [ start : {StatusLine(s) : s \in StatusCodes}, callid : CallIdHeaders,
    cseq : CSeqHeaders, to : ToHeaders ]

Messages == Requests \cup Responses

\* The responses of a dialog's life, without a dialog tag: 100, 200 and
\* 486 to INVITE and 200 to BYE.
DialogMessages ==
  { m \in Responses :
      /\ m.to = ToNoTag
      /\ \/ /\ m.cseq[Len(m.cseq)] = "INVITE"
            /\ m.start[2] \in { <<"1","0","0">>, <<"2","0","0">>,
                                <<"4","8","6">> }
         \/ /\ m.cseq[Len(m.cseq)] = "BYE"
            /\ m.start[2] = <<"2","0","0">> }

\* Responses a well-formed stack does not send: a CSeq header whose first
\* of two tokens is no number, a CSeq header of three tokens, no CSeq header
\* (no token), and a start line that ends after "SIP/2.0".
MalformedCSeqs == { <<"x", "INVITE">>, <<"1", "INVITE", "x">>, << >> }

MalformedMessages ==
  [ start : {StatusLine(<<"1","0","0">>)}, callid : CallIdHeaders,
    cseq : MalformedCSeqs, to : {ToNoTag} ]
    \cup [ start : {<<"SIP/2.0">>}, callid : CallIdHeaders,
           cseq : {<<"1", "INVITE">>}, to : {ToNoTag} ]

\* Direction labels a caller passes; NoLabel is the default None.
NoLabel == "None"
Labels == { "IN", "OUT", "IN&OUT", NoLabel }

\* Labels of the dialogs driven through reset_peak and clear: one that is
\* reversed and the default.
DialogLabels == { "OUT", NoLabel }

\* ------------------------------------------------------ field extractors
\* Outcome of a call that raised instead of returning.
ValueError == "ValueError"
KeyError == "KeyError"
TypeError == "TypeError"

is_response(sipmsg) == Head(sipmsg.start) = "SIP/2.0"

\* The text between the first and the second space of the message.
get_statuscode(sipmsg) ==
  IF Len(sipmsg.start) > 1 THEN sipmsg.start[2] ELSE <<>>

get_callid(sipmsg) == IF sipmsg.callid = Absent THEN "" ELSE sipmsg.callid

IsNumeral(tok) == \E i \in 1..Len(Numerals) : Numerals[i] = tok

\* int(tok) for a token that is a numeral.
int(tok) == (CHOOSE i \in 1..Len(Numerals) : Numerals[i] = tok) - 1

\* get_cseq: [raised, cseq, method]; int() raises ValueError on a first
\* token that is no number.
get_cseq(sipmsg) ==
  LET l == sipmsg.cseq IN
  IF Len(l) = 2
    THEN IF IsNumeral(l[1])
           THEN [raised |-> "", cseq |-> int(l[1]), method |-> l[2]]
           ELSE [raised |-> ValueError, cseq |-> -1, method |-> ""]
    ELSE IF Len(l) = 1
           THEN [raised |-> "", cseq |-> 0, method |-> l[1]]
           ELSE [raised |-> "", cseq |-> -1, method |-> ""]

\* is_indialog: "None" without a To header, else whether the header holds
\* the text "tag".
is_indialog(sipmsg) ==
  IF sipmsg.to = Absent THEN "None"
  ELSE IF sipmsg.to = ToWithTag THEN "True" ELSE "False"

\* Python truth value of is_indialog's result.
Truthy(v) == v = "True"

\* reverse_direction that hands the label back as it came
SameDirection(direction) == direction

reverse_direction(direction) ==
  IF direction = "IN&OUT" THEN direction
  ELSE IF direction = "OUT" THEN "IN" ELSE "IN"

\* ---------------------------------------------------------------- state
\* self.name takes no part in counting and is not carried in the state;
\* __add__ joins the operands' names, which are always strings (line 30).
VARIABLES
  counters,       \* self.counters: direction -> count (a defaultdict(int))
  peak_counters,  \* self.peak_counters: snapshot of counters
  peak,           \* self.peak: set by reset_peak, absent before
  _callids,       \* self._callids: call id -> [direction, cseqs]
  _established,   \* self._established: set of call ids
  rv,             \* value returned by the most recent update that returned
  raised,         \* exception the most recent call ended with, "" if none
  top,            \* history: largest sessions_sum at the end of an operation
                  \* since the last reset_peak/clear (or since creation)
  other,          \* the right operand of +: [type, t], t its attributes
  merged          \* the objects self + other has returned, newest only

vars ==
  <<counters, peak_counters, peak, _callids, _established, rv, raised, top,
    other, merged>>

Directions == { "IN", "OUT", "IN&OUT" }

\* defaultdict(int)
EmptyDict == [k \in {} |-> 0]
Get(d, k) == IF k \in DOMAIN d THEN d[k] ELSE 0
Incr(d, k, n) ==
  [x \in DOMAIN d \cup {k} |-> IF x = k THEN Get(d, k) + n ELSE d[x]]
Pop(d, k) == [x \in DOMAIN d \ {k} |-> d[x]]

\* sum(d.values()); the keys of both mappings are direction labels
Sum(d) == Get(d, "IN") + Get(d, "OUT") + Get(d, "IN&OUT")

sessions_sum == Sum(counters)
peak_sessions_sum == Sum(peak_counters)

copy(d) == d

\* An attribute that may not have been assigned yet is kept as the sequence
\* of its values: empty before the first assignment, <<v>> after.
NoAttribute == << >>

Max(a, b) == IF a > b THEN a ELSE b

\* SIPSessionCounter(counters=c, peak_counters=p) as a tracker value; an
\* empty mapping is falsy and replaced by a new defaultdict(int).
New(c, p) ==
  [counters      |-> IF DOMAIN c = {} THEN EmptyDict ELSE c,
   peak_counters |-> IF DOMAIN p = {} THEN EmptyDict ELSE p,
   peak          |-> NoAttribute,
   callids       |-> EmptyDict,
   established   |-> {},
   rv            |-> 0,
   raised        |-> ""]

\* type(self)
SIPSessionCounter == "SIPSessionCounter"

Init ==
  /\ counters = EmptyDict
  /\ peak_counters = EmptyDict
  /\ peak = NoAttribute
  /\ _callids = EmptyDict
  /\ _established = {}
  /\ rv = 0
  /\ raised = ""
  /\ top = 0
  /\ other = [type |-> SIPSessionCounter, t |-> New(EmptyDict, EmptyDict)]
  /\ merged = << >>

\* --------------------------------------------------------------- update
\* The tracker as one value: the operations below map a tracker value to
\* the tracker value the call leaves behind.
Self ==
  [counters |-> counters, peak_counters |-> peak_counters, peak |-> peak,
   callids |-> _callids, established |-> _established, rv |-> rv,
   raised |-> raised]

\* IsInitial without the test for a dialog tag
IsInitialWithTag(statuscode, indialog) == statuscode = <<"1","0","0">>

\* IsInitial that takes every 1xx for the first provisional response
IsInitialAnyProvisional(statuscode, indialog) ==
  Len(statuscode) > 0 /\ statuscode[1] = "1" /\ ~Truthy(indialog)

\* statuscode == "100" and not self.is_indialog(sipmsg)
IsInitial(statuscode, indialog) ==
  statuscode = <<"1","0","0">> /\ ~Truthy(indialog)

\* CanEstablish without the test for a tracked call id
CanEstablishUntracked(t, callid, statuscode) ==
  /\ statuscode = <<"2","0","0">>
  /\ callid \notin t.established

\* statuscode == "200" and callid in _callids and callid not in _established
CanEstablish(t, callid, statuscode) ==
  /\ statuscode = <<"2","0","0">>
  /\ callid \in DOMAIN t.callids
  /\ callid \notin t.established

\* CanFail without the test for an established dialog
CanFailEstablished(t, callid, statuscode) ==
  /\ Len(statuscode) > 0
  /\ statuscode[1] \in {"3", "4", "5", "6"}
  /\ callid \in DOMAIN t.callids

\* statuscode.startswith(("3", "4", "5", "6")) and callid in _callids and
\* callid not in _established
CanFail(t, callid, statuscode) ==
  /\ Len(statuscode) > 0
  /\ statuscode[1] \in {"3", "4", "5", "6"}
  /\ callid \in DOMAIN t.callids
  /\ callid \notin t.established

\* 100 without dialog tag, call id not in _callids
NewDialog(t, callid, cseq, direction) ==
  LET d == reverse_direction(direction) IN
  [t EXCEPT !.callids = [x \in DOMAIN t.callids \cup {callid} |->
                           IF x = callid
                             THEN [direction |-> d, cseqs |-> {cseq}]
                             ELSE t.callids[x]],
            !.counters = Incr(t.counters, d, 1),
            !.rv = 1]

\* AddCSeq that forgets the sequence numbers seen before
AddCSeqReplaces(t, callid, cseq) ==
  [t EXCEPT !.callids[callid].cseqs = {cseq}]

\* AddCSeq counting the dialog again on every further 100
AddCSeqCounts(t, callid, cseq) ==
  [t EXCEPT !.callids[callid].cseqs = @ \cup {cseq},
            !.counters = Incr(t.counters, t.callids[callid].direction, 1),
            !.rv = 1]

\* 100 without dialog tag, call id already in _callids
AddCSeq(t, callid, cseq) ==
  [t EXCEPT !.callids[callid].cseqs = @ \cup {cseq}]

\* Establish that reports a change of the counts
EstablishReports(t, callid) ==
  [t EXCEPT !.established = @ \cup {callid}, !.rv = 1]

\* 200 for a tracked, not established call id
Establish(t, callid) ==
  [t EXCEPT !.established = @ \cup {callid}]

\* Failure that gives the dialog up on the first failure response
FailureDropsAll(t, callid, cseq) ==
  [t EXCEPT !.callids = Pop(t.callids, callid),
            !.counters = Incr(t.counters, t.callids[callid].direction, -1),
            !.rv = 1]

\* Failure that decrements but leaves the emptied entry in _callids
FailureKeepsEntry(t, callid, cseq) ==
  LET cseqs == t.callids[callid].cseqs \ {cseq} IN
  IF cseqs = {}
    THEN [t EXCEPT !.callids[callid].cseqs = cseqs,
                   !.counters = Incr(t.counters,
                                     t.callids[callid].direction, -1),
                   !.rv = 1]
    ELSE [t EXCEPT !.callids[callid].cseqs = cseqs]

\* 3xx-6xx for a tracked, not established call id
Failure(t, callid, cseq) ==
  LET cseqs == t.callids[callid].cseqs \ {cseq} IN
  IF cseqs = {}
    THEN [t EXCEPT !.callids = Pop(t.callids, callid),
                   !.counters = Incr(t.counters,
                                     t.callids[callid].direction, -1),
                   !.rv = 1]
    ELSE [t EXCEPT !.callids[callid].cseqs = cseqs]

\* Bye that leaves the call id in _established
ByeStaysEstablished(t, callid) ==
  IF callid \notin DOMAIN t.callids
    THEN [t EXCEPT !.raised = KeyError]
    ELSE [t EXCEPT !.callids = Pop(t.callids, callid),
                   !.counters = Incr(t.counters,
                                     t.callids[callid].direction, -1),
                   !.rv = 1]

\* BYE for an established call id; looking up an entry that is gone raises
\* KeyError before anything is changed.
Bye(t, callid) ==
  IF callid \notin DOMAIN t.callids
    THEN [t EXCEPT !.raised = KeyError]
    ELSE [t EXCEPT !.established = @ \ {callid},
                   !.callids = Pop(t.callids, callid),
                   !.counters = Incr(t.counters,
                                     t.callids[callid].direction, -1),
                   !.rv = 1]

\* Dispatch whose BYE branch takes the direction from the label of the call
DispatchByLabel(t, callid, cseq, method, statuscode, indialog, direction) ==
  IF method = "INVITE"
    THEN IF IsInitial(statuscode, indialog)
           THEN IF callid \notin DOMAIN t.callids
                  THEN NewDialog(t, callid, cseq, direction)
                  ELSE AddCSeq(t, callid, cseq)
         ELSE IF CanEstablish(t, callid, statuscode)
           THEN Establish(t, callid)
         ELSE IF CanFail(t, callid, statuscode)
           THEN Failure(t, callid, cseq)
         ELSE t
  ELSE IF method = "BYE"
    THEN IF callid \in t.established THEN [Bye(t, callid) EXCEPT
                !.counters = Incr(t.counters, reverse_direction(direction),
                                  -1)] ELSE t
  ELSE t

\* The method/status dispatch of update.
Dispatch(t, callid, cseq, method, statuscode, indialog, direction) ==
  IF method = "INVITE"
    THEN IF IsInitial(statuscode, indialog)
           THEN IF callid \notin DOMAIN t.callids
                  THEN NewDialog(t, callid, cseq, direction)
                  ELSE AddCSeq(t, callid, cseq)
         ELSE IF CanEstablish(t, callid, statuscode)
           THEN Establish(t, callid)
         ELSE IF CanFail(t, callid, statuscode)
           THEN Failure(t, callid, cseq)
         ELSE t
  ELSE IF method = "BYE"
    THEN IF callid \in t.established THEN Bye(t, callid) ELSE t
  ELSE t

\* RefreshPeak with the comparison turned round
RefreshPeakReversed(t) ==
  IF Sum(t.counters) < Sum(t.peak_counters)
    THEN [t EXCEPT !.peak_counters = copy(t.counters)]
    ELSE t

\* if self.sessions_sum > self.peak_sessions_sum: snapshot
RefreshPeak(t) ==
  IF Sum(t.counters) > Sum(t.peak_counters)
    THEN [t EXCEPT !.peak_counters = copy(t.counters)]
    ELSE t

\* The call ends with exception e: t is left as it was.
Raise(t, e) == [t EXCEPT !.raised = e]

\* update(sipmsg, direction) on tracker value t
Updated(t, sipmsg, direction) ==
  LET dir == IF direction = NoLabel THEN "IN&OUT" ELSE direction
      t0  == [t EXCEPT !.rv = 0, !.raised = ""]
      cs  == get_cseq(sipmsg)
      r   == Dispatch(t0, get_callid(sipmsg), cs.cseq, cs.method,
                      get_statuscode(sipmsg), is_indialog(sipmsg), dir)
  IN
  IF ~is_response(sipmsg) THEN t0
  ELSE IF cs.raised # "" THEN Raise(t, cs.raised)
  ELSE IF r.raised # "" THEN Raise(t, r.raised)
  ELSE RefreshPeak(r)

\* reset_peak() on tracker value t
PeakReset(t) ==
  [t EXCEPT !.peak = <<Sum(t.counters)>>,
            !.peak_counters = copy(t.counters),
            !.raised = ""]

\* clear that empties counters and leaves the peak snapshot alone
ClearedKeepsPeak(t) == [t EXCEPT !.counters = EmptyDict, !.raised = ""]

\* clear() on tracker value t
Cleared(t) == PeakReset([t EXCEPT !.counters = EmptyDict])

Becomes(n) ==
  /\ counters' = n.counters
  /\ peak_counters' = n.peak_counters
  /\ peak' = n.peak
  /\ _callids' = n.callids
  /\ _established' = n.established
  /\ rv' = n.rv
  /\ raised' = n.raised

update(sipmsg, direction) ==
  \E n \in {Updated(Self, sipmsg, direction)} :
    /\ Becomes(n)
    /\ top' = IF n.raised = "" THEN Max(top, Sum(n.counters)) ELSE top
    /\ UNCHANGED <<other, merged>>

reset_peak ==
  \E n \in {PeakReset(Self)} :
    /\ Becomes(n)
    /\ top' = Sum(n.counters)
    /\ UNCHANGED <<other, merged>>

clear ==
  \E n \in {Cleared(Self)} :
    /\ Becomes(n)
    /\ top' = Sum(n.counters)
    /\ UNCHANGED <<other, merged>>

\* ---------------------------------------------------------------- __add__
\* for k, v in d.items(): acc[k] += v
RECURSIVE AddItems(_, _, _)
AddItems(acc, d, keys) ==
  IF keys = {} THEN acc
  ELSE LET k == CHOOSE x \in keys : TRUE IN
       AddItems(Incr(acc, k, d[k]), d, keys \ {k})

\* the sum that reads its first operand only
SumOfFirst(a, b) == AddItems(EmptyDict, a, DOMAIN a)

\* new = defaultdict(int); for d in a, b: for k, v in d.items(): new[k] += v
SumOf(a, b) == AddItems(AddItems(EmptyDict, a, DOMAIN a), b, DOMAIN b)

\* __add__ without the type test
AddedAnyType(a, o) ==
  [self |-> a, other |-> o, raised |-> "",
   result |-> <<New(SumOf(a.counters, o.t.counters),
                    SumOf(a.peak_counters, o.t.peak_counters))>>]

\* __add__ whose result takes over the dialogs its left operand tracks
AddedKeepsTracking(a, o) ==
  IF SIPSessionCounter # o.type
    THEN [self |-> a, other |-> o, raised |-> TypeError, result |-> << >>]
    ELSE [self |-> a, other |-> o, raised |-> "",
          result |->
            <<[New(SumOf(a.counters, o.t.counters),
                   SumOf(a.peak_counters, o.t.peak_counters))
                 EXCEPT !.callids = a.callids,
                        !.established = a.established]>>]

\* a + o for tracker value a and object o = [type, t]: the operands as the
\* call leaves them, the exception raised, and the objects returned.
Added(a, o) ==
  IF SIPSessionCounter # o.type
    THEN [self |-> a, other |-> o, raised |-> TypeError, result |-> << >>]
    ELSE [self |-> a, other |-> o, raised |-> "",
          result |-> <<New(SumOf(a.counters, o.t.counters),
                           SumOf(a.peak_counters, o.t.peak_counters))>>]

\* merged = self + other
add ==
  \E r \in {Added(Self, other)} :
    /\ Becomes([r.self EXCEPT !.raised = r.raised])
    /\ other' = r.other
    /\ merged' = IF r.raised = "" THEN r.result ELSE merged
    /\ UNCHANGED top

\* merged.update(sipmsg, direction)
update_merged(sipmsg, direction) ==
  /\ merged # << >>
  /\ merged' = <<Updated(merged[1], sipmsg, direction)>>
  /\ UNCHANGED <<counters, peak_counters, peak, _callids, _established, rv,
                 raised, top, other>>

\* Longest sequence of calls that brings an operand of + to its state.
MaxCalls == 3

\* The responses that bring an operand of + to its state: 100, 200 and 486
\* to INVITE and 200 to BYE of the dialog "c1".
OperandMessages ==
  { m \in DialogMessages : m.callid = "c1" /\ m.cseq[1] = "1" }

\* The tracker values a new tracker reaches with at most k calls of update,
\* reset_peak and clear.
RECURSIVE Runs(_)
Runs(k) ==
  IF k = 0 THEN {New(EmptyDict, EmptyDict)}
  ELSE LET R == Runs(k - 1) IN
       R \cup { Updated(t, m, l) :
                  t \in R, m \in OperandMessages, l \in DialogLabels }
         \cup { PeakReset(t) : t \in R }
         \cup { Cleared(t) : t \in R }

Trackers == Runs(MaxCalls)

\* The classes of the right operand: a tracker, and an object of another
\* class that carries the same attributes.
OperandTypes == { SIPSessionCounter, "object" }

\* BYE and failure responses of the dialogs an operand may track.
Resolving ==
  { m \in DialogMessages :
      \/ m.cseq[Len(m.cseq)] = "BYE"
      \/ m.start[2] = <<"4","8","6">> }

\* --------------------------------------------------------- specifications
\* update with any message of the alphabet and any label
Update ==
  \E sipmsg \in Messages, direction \in Labels : update(sipmsg, direction)

\* update with the responses that drive a dialog
UpdateDialog ==
  \E sipmsg \in DialogMessages, direction \in DialogLabels :
    update(sipmsg, direction)

\* A fresh tracker fed by update only.
NextUpdate == Update
SpecUpdate == Init /\ [][NextUpdate]_vars

\* A fresh tracker fed by update, reset_peak and clear.
Next == UpdateDialog \/ reset_peak \/ clear
Spec == Init /\ [][Next]_vars

\* update with a malformed response
UpdateMalformed ==
  \E sipmsg \in MalformedMessages, direction \in DialogLabels :
    update(sipmsg, direction)

\* A fresh tracker fed the responses of dialogs and malformed responses.
NextMalformed == UpdateDialog \/ UpdateMalformed
SpecMalformed == Init /\ [][NextMalformed]_vars

\* Two trackers, each brought to its state by at most MaxCalls calls.
InitMerge ==
  \E a \in Trackers, b \in Trackers, ty \in OperandTypes :
    /\ counters = a.counters
    /\ peak_counters = a.peak_counters
    /\ peak = a.peak
    /\ _callids = a.callids
    /\ _established = a.established
    /\ rv = a.rv
    /\ raised = a.raised
    /\ top = Sum(a.peak_counters)
    /\ other = [type |-> ty, t |-> b]
    /\ merged = << >>

\* BYE and failure responses fed to the object + returned
UpdateMerged ==
  \E sipmsg \in Resolving, direction \in DialogLabels :
    update_merged(sipmsg, direction)

\* Two trackers are added, and the sum is fed BYE and failure responses.
NextMerge == add \/ UpdateMerged
SpecMerge == InitMerge /\ [][NextMerge]_vars

\* ----------------------------------------------------------------- claims
\* Call ids whose entry in _callids stores direction d.
Tracked(d) == { c \in DOMAIN _callids : _callids[c].direction = d }

\* C1: from a fresh tracker, after any sequence of update calls, every
\* per-direction value held in counters is >= 0.
C1_CountersNonNegative == \A d \in DOMAIN counters : counters[d] >= 0

\* A dialog was counted under "IN" and resolved again: the key is left
\* behind with the value 0 and the last update reported a change.
C1_Witness ==
  /\ "IN" \in DOMAIN counters
  /\ counters["IN"] = 0
  /\ _callids = EmptyDict
  /\ rv = 1

\* C2: the count of a direction is never negative, also when clear() and
\* reset_peak() are interleaved with update calls.
C2_NeverNegativeWithClear == \A d \in Directions : Get(counters, d) >= 0

\* C3: from a fresh tracker and with update calls only, the count of every
\* direction equals the number of call ids tracked under that direction.
C3_ExactlyOnce ==
  \A d \in Directions : Get(counters, d) = Cardinality(Tracked(d))

\* Two dialogs are tracked at once, under different directions.
C3_Witness ==
  /\ Cardinality(Tracked("IN")) = 1
  /\ Cardinality(Tracked("IN&OUT")) = 1
  /\ Get(counters, "IN") = 1
  /\ Get(counters, "IN&OUT") = 1

\* Classes of responses, by what the extractors return for them.
Method(m) == get_cseq(m).method
Number(m) == get_cseq(m).cseq

\* 100 to INVITE without a dialog tag
Initial100 ==
  { m \in Responses : /\ Method(m) = "INVITE"
                      /\ get_statuscode(m) = <<"1","0","0">>
                      /\ is_indialog(m) # "True" }

\* 200 to INVITE
Ok200 ==
  { m \in Responses : /\ Method(m) = "INVITE"
                      /\ get_statuscode(m) = <<"2","0","0">> }

\* 3xx/4xx/5xx/6xx to INVITE
Failures ==
  { m \in Responses : /\ Method(m) = "INVITE"
                      /\ get_statuscode(m)[1] \in {"3", "4", "5", "6"} }

\* any response whose CSeq method is BYE
ByeResponses == { m \in Responses : Method(m) = "BYE" }

\* The tracker after an update that returned 0 and changed nothing.
Untouched(t) == [t EXCEPT !.rv = 0, !.raised = ""]

\* C4: a 100 to INVITE without dialog tag for an untracked call id, with
\* label OUT, adds exactly 1 to counters["IN"], leaves the count of every
\* other direction as it was, and returns 1.
C4_InitialOutCountsIn ==
  \A m \in Initial100 :
    get_callid(m) \notin DOMAIN _callids =>
      LET n == Updated(Self, m, "OUT") IN
      /\ n.raised = ""
      /\ n.rv = 1
      /\ Get(n.counters, "IN") = Get(counters, "IN") + 1
      /\ \A d \in Directions \ {"IN"} : Get(n.counters, d) = Get(counters, d)

\* One dialog is already counted under "IN&OUT" and another call id is
\* still untracked: its first 100 with label OUT leaves IN = 1, IN&OUT = 1.
C4_Witness ==
  /\ Get(counters, "IN&OUT") = 1
  /\ \E m \in Initial100 :
       /\ get_callid(m) \notin DOMAIN _callids
       /\ Updated(Self, m, "OUT").counters = ("IN" :> 1 @@ "IN&OUT" :> 1)

\* The direction the claim expects a new dialog to be counted under.
Swapped(label) ==
  IF label = "IN" THEN "OUT" ELSE IF label = "OUT" THEN "IN" ELSE "IN&OUT"

\* C5: a newly detected dialog is stored and counted under the swap of the
\* label passed: IN counts under OUT, OUT under IN, IN&OUT or no label
\* under IN&OUT.
C5_NewDialogCountsSwapped ==
  \A m \in Initial100, label \in Labels :
    get_callid(m) \notin DOMAIN _callids =>
      LET n == Updated(Self, m, label) IN
      /\ n.callids[get_callid(m)].direction = Swapped(label)
      /\ Get(n.counters, Swapped(label)) = Get(counters, Swapped(label)) + 1

\* C6: a 100 to INVITE without dialog tag for a tracked call id, with a
\* sequence number not yet pending, returns 0 and changes nothing but the
\* entry's pending set, which gains that number; the label plays no part.
C6_FurtherInitialOnlyAddsCSeq ==
  \A m \in Initial100, label \in Labels :
    LET c == get_callid(m) IN
    (c \in DOMAIN _callids /\ Number(m) \notin _callids[c].cseqs) =>
      Updated(Self, m, label) =
        [Untouched(Self) EXCEPT !.callids[c].cseqs = @ \cup {Number(m)}]

\* A counted dialog with one pending sequence number, and a 100 carrying
\* another one: the dialog then has two pending numbers and is counted once.
C6_Witness ==
  \E m \in Initial100 :
    LET c == get_callid(m) IN
    /\ c \in DOMAIN _callids
    /\ Cardinality(_callids[c].cseqs) = 1
    /\ Number(m) \notin _callids[c].cseqs
    /\ Get(counters, _callids[c].direction) = 1
    /\ Cardinality(Updated(Self, m, "IN").callids[c].cseqs) = 2

\* C7: a 200 to INVITE for a tracked, not established call id returns 0 and
\* leaves counters alone; once a call id is established no failure response
\* to INVITE changes anything, whatever its sequence number, and the only
\* update that ends its tracking is a BYE response for it.
C7_EstablishedOnlyEndsByBye ==
  /\ \A c \in DOMAIN _callids \ _established :
       LET n == [Untouched(Self) EXCEPT !.established = @ \cup {c}] IN
       /\ \A m \in Ok200, label \in Labels :
            get_callid(m) = c => Updated(Self, m, label) = n
       /\ \A f \in Failures, label \in Labels :
            get_callid(f) = c => Updated(n, f, label) = Untouched(n)
  /\ \A f \in Failures, label \in Labels :
       get_callid(f) \in _established =>
         Updated(Self, f, label) = Untouched(Self)
  /\ _established = {} \/
       \A m \in Messages, label \in Labels :
         LET n == Updated(Self, m, label) IN
         \A c \in _established :
           (c \notin n.established \/ c \notin DOMAIN n.callids) =>
             (Method(m) = "BYE" /\ get_callid(m) = c)

\* An established dialog with a pending sequence number, counted once: a
\* failure response carrying that very number leaves it tracked.
C7_Witness ==
  \E f \in Failures :
    LET c == get_callid(f) IN
    /\ c \in _established
    /\ c \in DOMAIN _callids
    /\ _callids[c].cseqs = {Number(f)}
    /\ Get(counters, _callids[c].direction) = 1
    /\ c \in DOMAIN Updated(Self, f, "IN").callids

\* C8: a BYE response for an established call id takes exactly 1 from the
\* counter of the dialog's stored direction, removes the call id from
\* _established and _callids and returns 1; the same response again
\* returns 0 and changes nothing.
C8_ByeEndsOnce ==
  \A m \in ByeResponses, label \in Labels :
    LET c == get_callid(m) IN
    c \in _established =>
      LET n == Updated(Self, m, label) IN
      /\ n.raised = ""
      /\ n.rv = 1
      /\ n.counters = Incr(counters, _callids[c].direction, -1)
      /\ c \notin n.established
      /\ c \notin DOMAIN n.callids
      /\ \A l2 \in Labels : Updated(n, m, l2) = Untouched(n)

\* An established dialog counted under "IN": the BYE response brings the
\* count of "IN" from 1 to 0.
C8_Witness ==
  \E m \in ByeResponses :
    LET c == get_callid(m) IN
    /\ c \in _established
    /\ _callids[c].direction = "IN"
    /\ counters["IN"] = 1
    /\ Updated(Self, m, "OUT").counters["IN"] = 0

\* C9: for a tracked, never established call id a failure response to
\* INVITE takes its sequence number out of the pending set; if the set is
\* then empty the stored direction's counter drops by 1, the entry goes and
\* update returns 1; otherwise update returns 0, counters stay and the
\* entry stays.
C9_FailureResolvesLastAttempt ==
  \A f \in Failures, label \in Labels :
    LET c == get_callid(f) IN
    (c \in DOMAIN _callids /\ c \notin _established) =>
      LET n    == Updated(Self, f, label)
          rest == _callids[c].cseqs \ {Number(f)}
      IN
      IF rest = {}
        THEN /\ n.rv = 1
             /\ n.counters = Incr(counters, _callids[c].direction, -1)
             /\ c \notin DOMAIN n.callids
        ELSE /\ n.rv = 0
             /\ n.counters = counters
             /\ c \in DOMAIN n.callids
             /\ n.callids[c].cseqs = rest

\* Two pending dialogs, one with a single attempt and one with two: the
\* failure of the single attempt returns 1, the failure of one of the two
\* returns 0.
C9_Witness ==
  \E f \in Failures, g \in Failures :
    LET c == get_callid(f)
        e == get_callid(g)
    IN
    /\ c \in DOMAIN _callids /\ c \notin _established
    /\ e \in DOMAIN _callids /\ e \notin _established
    /\ _callids[c].cseqs = {Number(f)}
    /\ Number(g) \in _callids[e].cseqs
    /\ Cardinality(_callids[e].cseqs) = 2
    /\ Updated(Self, f, "IN").rv = 1
    /\ Updated(Self, g, "IN").rv = 0

\* C10: after every operation the sum of peak_counters is the largest value
\* sessions_sum has had at the end of an operation since the last
\* reset_peak()/clear() (or since creation), which top records.
C10_PeakIsMaximumSinceReset == peak_sessions_sum = top

\* After a reset_peak or clear the count rose to 1 and fell back to 0: the
\* peak keeps the 1.
C10_Witness ==
  /\ peak # NoAttribute
  /\ top = 1
  /\ sessions_sum = 0
  /\ peak_sessions_sum = 1

\* C11: right after clear(), called in any reachable state, sessions_sum
\* and peak_sessions_sum are both 0.
C11_ClearZeroesBothSums ==
  LET n == Cleared(Self) IN
  /\ n.raised = ""
  /\ Sum(n.counters) = 0
  /\ Sum(n.peak_counters) = 0

\* clear() was called while two dialogs were tracked: nothing is counted
\* any more, the snapshot is empty, and the dialogs are still tracked.
C11_Witness ==
  /\ counters = EmptyDict
  /\ peak_counters = EmptyDict
  /\ peak = <<0>>
  /\ Cardinality(DOMAIN _callids) = 2

\* C12: a + b and b + a carry the same count and the same peak count for
\* every direction, each the sum of the operands' values for it.
C12_MergeCommutes ==
  other.type = SIPSessionCounter =>
    LET x == Added(Self, other)
        y == Added(other.t, [type |-> SIPSessionCounter, t |-> Self])
    IN
    /\ x.raised = "" /\ y.raised = ""
    /\ \A d \in Directions :
         /\ Get(x.result[1].counters, d)
              = Get(counters, d) + Get(other.t.counters, d)
         /\ Get(y.result[1].counters, d) = Get(x.result[1].counters, d)
         /\ Get(x.result[1].peak_counters, d)
              = Get(peak_counters, d) + Get(other.t.peak_counters, d)
         /\ Get(y.result[1].peak_counters, d)
              = Get(x.result[1].peak_counters, d)

\* The sum has been made of a tracker that counts one dialog under "IN" and
\* a tracker whose only dialog, counted under "IN&OUT", has failed.
C12_Witness ==
  /\ merged # << >>
  /\ Get(counters, "IN") = 1
  /\ "IN&OUT" \in DOMAIN other.t.counters
  /\ other.t.counters["IN&OUT"] = 0
  /\ Get(other.t.peak_counters, "IN&OUT") = 1
  /\ Sum(merged[1].counters) = 1
  /\ Sum(merged[1].peak_counters) = 2

\* C13: + leaves both operands as they were; the object it returns tracks
\* no dialog, so a BYE or failure response of a dialog an operand tracks
\* changes nothing in it.
C13_MergeLeavesOperands ==
  LET r == Added(Self, other) IN
  /\ r.self = Self
  /\ r.other = other
  /\ \A i \in 1..Len(r.result) :
       /\ r.result[i].callids = EmptyDict
       /\ r.result[i].established = {}
       /\ \A m \in Resolving, l \in DialogLabels :
            Updated(r.result[i], m, l) = r.result[i]
  /\ \A i \in 1..Len(merged) : merged[i] = r.result[i]

\* Both operands track the dialog "c1", established in the left one, and
\* their sum has been made.
C13_Witness ==
  /\ merged # << >>
  /\ "c1" \in _established
  /\ "c1" \in DOMAIN other.t.callids
  /\ Sum(merged[1].counters) = 2

\* C14: + with an operand that is not a tracker raises TypeError, returns
\* no object, and leaves the tracker as it was.
C14_MergeRejectsOtherKind ==
  other.type # SIPSessionCounter =>
    LET r == Added(Self, other) IN
    /\ r.raised = TypeError
    /\ r.result = << >>
    /\ r.self = Self
    /\ merged = << >>

\* + has just raised TypeError on a tracker that counts a dialog, with an
\* operand that carries counts of its own.
C14_Witness ==
  /\ raised = TypeError
  /\ merged = << >>
  /\ sessions_sum = 1
  /\ Sum(other.t.counters) = 1

\* The directions whose count differs between the mappings a and b.
Changed(a, b) == { d \in Directions : Get(a, d) # Get(b, d) }

\* C15: whatever the state and the message, update returns 1 exactly when
\* it changed the count of a direction, and then it changed the count of
\* one direction only, by +1 or -1; it returns 0 exactly when no count
\* changed.
C15_FlagTellsChange ==
  [](\A m \in Messages, l \in Labels :
       LET n  == Updated(Self, m, l)
           ch == Changed(counters, n.counters)
       IN
       n.raised = "" =>
         /\ n.rv \in {0, 1}
         /\ n.rv = 1 <=> ch # {}
         /\ n.rv = 0 <=> ch = {}
         /\ Cardinality(ch) <= 1
         /\ \A d \in ch : Get(n.counters, d) - Get(counters, d) \in {-1, 1})

\* One dialog is established and another call id is untracked: a BYE takes
\* 1 from a count, a first 100 adds 1 to a count, a 200 changes none.
C15_Witness ==
  /\ _established # {}
  /\ \E m \in ByeResponses :
       LET n == Updated(Self, m, NoLabel) IN
       n.rv = 1 /\ Sum(n.counters) = sessions_sum - 1
  /\ \E m \in Initial100 :
       LET n == Updated(Self, m, NoLabel) IN
       n.rv = 1 /\ Sum(n.counters) = sessions_sum + 1
  /\ \E m \in Ok200 :
       LET n == Updated(Self, m, NoLabel) IN
       n.rv = 0 /\ n.counters = counters

\* The messages update has no branch for in any state: requests, responses
\* to a method other than INVITE and BYE, and responses to INVITE whose
\* status is none of 100, 200, 3xx-6xx.
NeverHandled ==
  Requests
    \cup { m \in Responses : Method(m) \notin {"INVITE", "BYE"} }
    \cup { m \in Responses :
             /\ Method(m) = "INVITE"
             /\ get_statuscode(m) \notin { <<"1","0","0">>, <<"2","0","0">> }
             /\ get_statuscode(m)[1] \notin {"3", "4", "5", "6"} }

Ok200OrFailure == Ok200 \cup Failures

\* The messages update has no branch for in the current state: the ones
\* above, 200 and failure responses to INVITE of an untracked call id, 200
\* to INVITE of an established call id, and responses to BYE of a call id
\* that is not established.
Ignored ==
  NeverHandled
    \cup { m \in Ok200OrFailure : get_callid(m) \notin DOMAIN _callids }
    \cup { m \in Ok200 : get_callid(m) \in _established }
    \cup { m \in ByeResponses : get_callid(m) \notin _established }

\* C16: update returns 0 and leaves counters, peak_counters, _callids and
\* _established as they were for a request and for every response outside
\* the handled combinations, whatever the label.
C16_IgnoredChangesNothing ==
  [](\A m \in Ignored, l \in Labels : Updated(Self, m, l) = Untouched(Self))

\* One dialog is established, another call id is untracked, and the last
\* update returned 1: a second 200 for the established dialog, and a 486 and
\* a BYE response for the untracked call id, return 0 and change nothing.
C16_Witness ==
  /\ rv = 1
  /\ \E m \in Ok200 :
       /\ get_callid(m) \in _established
       /\ Updated(Self, m, "IN") = Untouched(Self)
  /\ \E m \in Failures, b \in ByeResponses :
       /\ get_callid(m) \notin DOMAIN _callids
       /\ get_callid(b) = get_callid(m)
       /\ Updated(Self, m, "IN") = Untouched(Self)
       /\ Updated(Self, b, "IN") = Untouched(Self)

\* C17: update never fails: for every message, also one without Call-ID,
\* with a missing or malformed CSeq header or with a start line that holds
\* no status, it returns 0 or 1, and a CSeq header that is not "<number>
\* <method>" or a lone method makes it return 0 and change nothing.
C17_UpdateNeverFails ==
  \A m \in MalformedMessages \cup DialogMessages, l \in DialogLabels :
    LET n == Updated(Self, m, l) IN
    /\ n.raised = ""
    /\ n.rv \in {0, 1}
    /\ m.cseq \in MalformedCSeqs => n = Untouched(Self)

\* C18: the count a failure response or a BYE takes 1 from is the count of
\* the direction stored in the dialog's entry, whatever label the call
\* passes, and the stored direction stays as it is while the entry exists.
C18_ResolvesStoredDirection ==
  /\ [](\A m \in Failures \cup ByeResponses, l \in Labels :
          get_callid(m) \in DOMAIN _callids =>
            LET n == Updated(Self, m, l)
                d == _callids[get_callid(m)].direction
            IN
            /\ n.raised = ""
            /\ n.rv = 1 =>
                 /\ Get(n.counters, d) = Get(counters, d) - 1
                 /\ Changed(counters, n.counters) = {d})
  /\ [][\A c \in DOMAIN _callids \cap DOMAIN _callids' :
          _callids'[c].direction = _callids[c].direction]_vars

\* A dialog stored under "IN" is established and one stored under "IN&OUT"
\* is pending: a BYE with label "IN&OUT" takes 1 from "IN", a 486 with
\* label "OUT" takes 1 from "IN&OUT".
C18_Witness ==
  /\ \E m \in ByeResponses :
       /\ get_callid(m) \in _established
       /\ _callids[get_callid(m)].direction = "IN"
       /\ LET n == Updated(Self, m, "IN&OUT") IN
          n.rv = 1 /\ Changed(counters, n.counters) = {"IN"}
  /\ \E m \in Failures :
       /\ get_callid(m) \in DOMAIN _callids \ _established
       /\ _callids[get_callid(m)].direction = "IN&OUT"
       /\ LET n == Updated(Self, m, "OUT") IN
          n.rv = 1 /\ Changed(counters, n.counters) = {"IN&OUT"}

\* 100 to INVITE whose To header carries a dialog tag
Tagged100 ==
  { m \in Responses : /\ Method(m) = "INVITE"
                      /\ get_statuscode(m) = <<"1","0","0">>
                      /\ is_indialog(m) = "True" }

\* C19: a 100 to INVITE with a dialog tag creates no entry, adds no sequence
\* number and changes no count, for a tracked and for an untracked call id;
\* a 100 without tag, also one without To header, creates the entry of an
\* untracked call id and adds its sequence number to the entry of a tracked
\* one.
C19_TaggedTryingIgnored ==
  [](/\ \A m \in Tagged100, l \in Labels :
          Updated(Self, m, l) = Untouched(Self)
     /\ \A m \in Initial100, l \in Labels :
          LET n == Updated(Self, m, l)
              c == get_callid(m)
          IN
          /\ c \in DOMAIN n.callids
          /\ Number(m) \in n.callids[c].cseqs
          /\ n.rv = 1 <=> c \notin DOMAIN _callids)

\* The dialog "c1" is pending with sequence number 1 and the other call id
\* is untracked: a tagged 100 changes nothing for either, and a 100 without
\* To header creates the entry of the untracked one.
C19_Witness ==
  /\ "c1" \in DOMAIN _callids \ _established
  /\ _callids["c1"].cseqs = {1}
  /\ \E m \in Tagged100 :
       /\ get_callid(m) = "c1"
       /\ Number(m) = 0
       /\ Updated(Self, m, "IN") = Untouched(Self)
  /\ \E m \in Tagged100 :
       /\ get_callid(m) \notin DOMAIN _callids
       /\ Updated(Self, m, "IN") = Untouched(Self)
  /\ \E m \in Initial100 :
       /\ m.to = Absent
       /\ get_callid(m) \notin DOMAIN _callids
       /\ get_callid(m) \in DOMAIN Updated(Self, m, "IN").callids

\* C20: in every state reached through update, reset_peak and clear, every
\* call id in _established is a key of _callids, and every entry of
\* _callids holds at least one sequence number.
C20_TrackingWellFormed ==
  /\ _established \subseteq DOMAIN _callids
  /\ \A c \in DOMAIN _callids : _callids[c].cseqs # {}

\* After clear(): one dialog is established, another is pending, and no
\* count is held.
C20_Witness ==
  /\ counters = EmptyDict
  /\ _established # {}
  /\ DOMAIN _callids \ _established # {}
  /\ peak = <<0>>

====
